---- MODULE Spec2Model ----
(***************************************************************************)
(* Model of app13.py: the NIFTY call/put screening script.                 *)
(*                                                                         *)
(* The script is run top to bottom by Streamlit on every trigger (a        *)
(* "refresh cycle").  Script variables (stocks, frames, df, call_df,       *)
(* put_df) are rebuilt by every run; the two st.cache_data caches belong   *)
(* to the server process and survive the run.                              *)
(*                                                                         *)
(* Numbers.  Indicator values are floats in the program; the model uses    *)
(* integers placed on and next to every threshold of the rules.  A missing *)
(* value (NaN) is the value NaN below, a missing timestamp (NaT) is NaT.   *)
(* Timestamps are seconds since midnight of the first day of the window.   *)
(***************************************************************************)
EXTENDS Integers, Sequences, FiniteSets, TLC

\* ------------------------------------------------------------------ bounds
\* Largest number of bars one run may hold in `frames`.
MaxRows == 3

\* ------------------------------------------------------- missing values
NaN == -9999
NaT == -1
\* Values a cached function can hold or return.  A DataFrame is the
\* sequence of its rows.
NotCached == [kind |-> "NotCached"]
None == [kind |-> "None"]
DataFrame(rows) == [kind |-> "DataFrame", rows |-> rows]
List(items) == [kind |-> "list", items |-> items]

\* ------------------------------------------------------- time of day
DaySeconds == 86400
\* datetime.time(10, 0) as seconds after midnight
TenAM == 36000

\* Series.dt.time: the wall-clock part of a timestamp, the date dropped.
TimeOfDay(ts) == ts % DaySeconds

\* ------------------------------------------------ comparisons on floats
\* Every comparison with NaN is False (IEEE / pandas semantics).
LeMissingIsLowest(x, b) == x <= b
Le(x, b) == x # NaN /\ x <= b
Ge(x, b) == x # NaN /\ x >= b
Lt(x, y) == x # NaN /\ y # NaN /\ x < y
Gt(x, y) == x # NaN /\ y # NaN /\ x > y
\* Series.between(lo, hi), inclusive="both": (x >= lo) & (x <= hi)
between(x, lo, hi) == Ge(x, lo) /\ Le(x, hi)
\* abs(a - b): NaN if either operand is NaN
AbsDiff(a, b) == IF a = NaN \/ b = NaN THEN NaN
                 ELSE IF a >= b THEN a - b ELSE b - a

\* ------------------------------------------------------- signal rules
CALL_ENTRY_FlippedDI20(r) ==
    /\ Le(r.BB60, 35)
    /\ between(r.RSI20, 65, 100)
    /\ between(r.WILLR28, -20, 0)
    /\ Ge(r.pDI6, 40) /\ Le(r.nDI6, 12)
    /\ Le(r.pDI20, 35) /\ Le(r.nDI20, 15)
CALL_ENTRY(r) ==
    /\ Le(r.BB60, 35)
    /\ between(r.RSI20, 65, 100)
    /\ between(r.WILLR28, -20, 0)
    /\ Ge(r.pDI6, 40) /\ Le(r.nDI6, 12)
    /\ Ge(r.pDI20, 35) /\ Le(r.nDI20, 15)

PUT_ENTRY_AnyCondition(r) ==
    \/ Le(r.BB60, 35)
    \/ between(r.RSI20, 1, 40)
    \/ between(r.WILLR28, -100, -80)
    \/ Ge(r.nDI6, 35) \/ Le(r.pDI6, 15)
    \/ Ge(r.nDI20, 30) \/ Le(r.pDI20, 15)
PUT_ENTRY(r) ==
    /\ Le(r.BB60, 35)
    /\ between(r.RSI20, 1, 40)
    /\ between(r.WILLR28, -100, -80)
    /\ Ge(r.nDI6, 35) /\ Le(r.pDI6, 15)
    /\ Ge(r.nDI20, 30) /\ Le(r.pDI20, 15)

\* abs(df["+DI20"] - df["-DI20"]) < 10, the first clause of both exit rules
TrendCollapse(r) == Lt(AbsDiff(r.pDI20, r.nDI20), 10)

CALL_EXIT(r) == TrendCollapse(r) \/ Lt(r.Close, r.MA8)
PUT_EXIT(r) == TrendCollapse(r) \/ Gt(r.Close, r.MA8)

\* Row masks of the two dashboard tables
CallActiveEntryOnly(r) == r.CALL_ENTRY
CallActive(r) == r.CALL_ENTRY /\ ~r.CALL_EXIT
PutActive(r) == r.PUT_ENTRY /\ ~r.PUT_EXIT

\* ------------------------------------------------------- market data
Symbols == {"A", "B"}
\* An empty cell of the Stock column (dropped by dropna)
Blank == "<NA>"

\* Timestamps a 5-day / 5-minute download may carry, as seconds since the
\* first midnight: 09:59:59, 10:00:00 and 10:15:00 of the first day,
\* 09:59:59 and 10:00:00 of the second.
Times == {35999, 36000, 36900, DaySeconds + 35999, DaySeconds + 36000}

\* What the trailing price window of a bar looks like.  The indicator
\* library is a function of that window; Window gives the close of the bar
\* and the values the library computes from the window.
Hists == {"warmup", "call_run", "call_fade", "put_run", "put_fade"}
Window(h) ==
    CASE h = "call_run" ->
           [Close |-> 100, BB60 |-> 35, RSI20 |-> 65, WILLR28 |-> -20,
            pDI6 |-> 40, nDI6 |-> 12, pDI20 |-> 35, nDI20 |-> 15, MA8 |-> 100]
      [] h = "call_fade" ->
           [Close |-> 100, BB60 |-> 20, RSI20 |-> 80, WILLR28 |-> -5,
            pDI6 |-> 50, nDI6 |-> 5, pDI20 |-> 40, nDI20 |-> 10, MA8 |-> 101]
      [] h = "put_run" ->
           [Close |-> 100, BB60 |-> 30, RSI20 |-> 40, WILLR28 |-> -80,
            pDI6 |-> 15, nDI6 |-> 35, pDI20 |-> 15, nDI20 |-> 30, MA8 |-> 100]
      [] h = "put_fade" ->
           [Close |-> 100, BB60 |-> 25, RSI20 |-> 20, WILLR28 |-> -95,
            pDI6 |-> 10, nDI6 |-> 45, pDI20 |-> 10, nDI20 |-> 40, MA8 |-> 99]
      [] OTHER ->
           [Close |-> 100, BB60 |-> NaN, RSI20 |-> NaN, WILLR28 |-> NaN,
            pDI6 |-> NaN, nDI6 |-> NaN, pDI20 |-> NaN, nDI20 |-> NaN, MA8 |-> NaN]

\* One bar as yf.download returns it.  Bars before 10:00 come with one
\* window only: nothing reads the window of a bar the time filter drops.
RemoteBars ==
    { b \in [Datetime : Times, hist : Hists] :
        b.Datetime % DaySeconds < TenAM => b.hist = "call_run" }

\* A non-empty download: at most MaxRows bars, timestamps strictly increasing
RemoteSeries ==
    UNION { { s \in [1..n -> RemoteBars] :
                \A k \in 1..(n - 1) : s[k].Datetime < s[k + 1].Datetime }
            : n \in 1..MaxRows }

\* The whole indicator space one bar can show, on and next to every
\* threshold of the four rules
IndicatorSpace ==
    [Close : {NaN, 100},
     BB60 : {NaN, 35, 36},
     RSI20 : {NaN, 40, 41, 64, 65},
     WILLR28 : {NaN, -81, -80, -20, -19},
     pDI6 : {NaN, 15, 39, 40},
     nDI6 : {NaN, 12, 13, 35},
     pDI20 : {NaN, 15, 16, 34, 35},
     nDI20 : {NaN, 15, 16, 29, 30},
     MA8 : {NaN, 99, 100, 101}]

\* ------------------------------------------------------- load_stocks
\* Largest number of cells of the Stock column
MaxCsv == 3

CsvColumns == UNION { [1..n -> Symbols \cup {Blank}] : n \in 0..MaxCsv }

RECURSIVE unique(_)
\* Series.unique(): first appearances, in order
unique(col) ==
    IF col = << >> THEN << >>
    ELSE LET init == SubSeq(col, 1, Len(col) - 1)
             last == col[Len(col)]
             u == unique(init)
         IN IF \E k \in 1..Len(u) : u[k] = last THEN u ELSE Append(u, last)

dropna(col) == SelectSeq(col, LAMBDA c : c # Blank)

\* df["Stock"].dropna().unique().tolist()
load_stocks(col) == unique(dropna(col))

\* ------------------------------------------------------- fetch_data
\* The frame fetch_data returns for a download: None for an empty one,
\* else one row per bar with the Stock column set.
fetch_data(symbol, download) ==
    IF download = << >> THEN None
    ELSE DataFrame([k \in 1..Len(download) |->
                      [Stock |-> symbol,
                       Datetime |-> download[k].Datetime,
                       Close |-> Window(download[k].hist).Close,
                       hist |-> download[k].hist]])

\* ------------------------------------------------------- add_indicators
add_indicators(data) ==
    [k \in 1..Len(data.rows) |->
        LET w == Window(data.rows[k].hist) IN
        [Stock |-> data.rows[k].Stock, Datetime |-> data.rows[k].Datetime,
         Close |-> data.rows[k].Close,
         BB60 |-> w.BB60, RSI20 |-> w.RSI20, WILLR28 |-> w.WILLR28,
         pDI6 |-> w.pDI6, nDI6 |-> w.nDI6,
         pDI20 |-> w.pDI20, nDI20 |-> w.nDI20, MA8 |-> w.MA8]]

\* ------------------------------------------------------- main pipeline
\* Loop body: if data is not None: frames.append(add_indicators(data))
AppendFrameUnguarded(fr, data) ==
    Append(fr, IF data.kind = "None" THEN << >> ELSE add_indicators(data))
AppendFrame(fr, data) ==
    IF data.kind = "None" THEN fr ELSE Append(fr, add_indicators(data))

RECURSIVE concat(_)
\* pd.concat(frames, ignore_index=True)
concat(fr) == IF fr = << >> THEN << >> ELSE Head(fr) \o concat(Tail(fr))

\* df["Time"] >= datetime.time(10, 0)
KeepBarStrictlyAfter(r) == r.Time > TenAM
KeepBar(r) == r.Time >= TenAM

\* Entry_Time: Datetime where an entry flag holds, NaT elsewhere
Entry_Time(r) == IF r.CALL_ENTRY \/ r.PUT_ENTRY THEN r.Datetime ELSE NaT

\* x.min() of one Stock group: NaT is skipped; NaT when the group has no entry
GroupMinAllStocks(tbl, stock) ==
    LET ts == { tbl[k].Entry_Time : k \in 1..Len(tbl) } \ {NaT}
    IN IF ts = {} THEN NaT ELSE CHOOSE m \in ts : \A t \in ts : m <= t
GroupMin(tbl, stock) ==
    LET ts == { tbl[k].Entry_Time :
                  k \in { j \in 1..Len(tbl) : tbl[j].Stock = stock } } \ {NaT}
    IN IF ts = {} THEN NaT ELSE CHOOSE m \in ts : \A t \in ts : m <= t

\* (x - x.min()).dt.total_seconds() / 60.  Retained timestamps are whole
\* minutes, so the division is exact.
Duration_Min(x, m) == IF x = NaT \/ m = NaT THEN NaN ELSE (x - m) \div 60

\* sort_values("BB60"): ascending, NaN last, ties in table order
Before(a, b) == a.BB60 # NaN /\ (b.BB60 = NaN \/ a.BB60 < b.BB60)
Insert(sorted, r) ==
    LET pos == { k \in 1..Len(sorted) : Before(r, sorted[k]) }
        at == IF pos = {} THEN Len(sorted) + 1
              ELSE CHOOSE k \in pos : \A j \in pos : k <= j
    IN SubSeq(sorted, 1, at - 1) \o << r >> \o SubSeq(sorted, at, Len(sorted))
RECURSIVE sort_values(_)
sort_values(tbl) ==
    IF tbl = << >> THEN << >>
    ELSE Insert(sort_values(SubSeq(tbl, 1, Len(tbl) - 1)), tbl[Len(tbl)])

\* ------------------------------------------------------------- state
VARIABLES
    pc,           \* where the current run of the script stands
    halt,         \* why the run stopped: "", "config", "nodata", "exception"
    stocksCache,  \* st.cache_data store of load_stocks: NotCached or a list
    fetchCache,   \* st.cache_data store of fetch_data, per symbol
    stocks,       \* script variable: the instrument list
    i,            \* position of the for loop in stocks
    frames,       \* script variable: the enriched frames
    df,           \* script variable: the composed table
    call_df,      \* script variable: the CALL SIDE table
    put_df,       \* script variable: the PUT SIDE table
    rpc,          \* row-level evaluation: "off", "input" or "composed"
    bar,          \* row-level evaluation: the indicator values of one bar
    sig           \* row-level evaluation: the four flags of that bar

script == << pc, halt, stocks, i, frames, df, call_df, put_df >>
caches == << stocksCache, fetchCache >>
rowlevel == << rpc, bar, sig >>
vars == << pc, halt, stocksCache, fetchCache, stocks, i, frames, df,
           call_df, put_df, rpc, bar, sig >>

NoFlags == [CALL_ENTRY |-> FALSE, PUT_ENTRY |-> FALSE,
            CALL_EXIT |-> FALSE, PUT_EXIT |-> FALSE]

\* Process start: both caches empty, the first run about to begin
Init ==
    /\ pc = "load" /\ halt = ""
    /\ stocksCache = NotCached
    /\ fetchCache = [s \in Symbols |-> NotCached]
    /\ stocks = << >> /\ i = 1 /\ frames = << >>
    /\ df = << >> /\ call_df = << >> /\ put_df = << >>
    /\ rpc = "off" /\ bar = Window("warmup") /\ sig = NoFlags

\* ------------------------------------------------------- load_stocks()
\* Cache miss, the file has a Stock column: the list is computed and stored.
LoadStocksMiss ==
    /\ pc = "load" /\ stocksCache.kind = "NotCached"
    /\ \E col \in CsvColumns :
         /\ stocksCache' = List(load_stocks(col))
         /\ stocks' = load_stocks(col)
    /\ pc' = "fetch" /\ i' = 1
    /\ UNCHANGED << halt, fetchCache, frames, df, call_df, put_df, rowlevel >>

\* Cache miss, the file has no Stock column: st.error, st.stop().  Nothing
\* is stored, the run ends.
LoadStocksNoColumn ==
    /\ pc = "load" /\ stocksCache.kind = "NotCached"
    /\ pc' = "halted" /\ halt' = "config"
    /\ UNCHANGED << stocks, i, frames, df, call_df, put_df, caches, rowlevel >>

\* Cache hit: the stored list is returned, the file is not read.
LoadStocksHit ==
    /\ pc = "load" /\ stocksCache.kind = "list"
    /\ stocks' = stocksCache.items
    /\ pc' = "fetch" /\ i' = 1
    /\ UNCHANGED << halt, frames, df, call_df, put_df, caches, rowlevel >>

\* ------------------------------------------- for stock in stocks: ...
\* fetch_data(stock), cache hit: the stored value is returned, yf.download
\* is not called; the loop body then runs on it.
FetchHit ==
    /\ pc = "fetch" /\ i <= Len(stocks)
    /\ fetchCache[stocks[i]].kind # "NotCached"
    /\ frames' = AppendFrame(frames, fetchCache[stocks[i]])
    /\ i' = i + 1
    /\ UNCHANGED << pc, halt, stocks, df, call_df, put_df, caches, rowlevel >>

\* fetch_data(stock), cache miss: the body runs and calls yf.download.
FetchMiss ==
    /\ pc = "fetch" /\ i <= Len(stocks)
    /\ fetchCache[stocks[i]].kind = "NotCached"
    /\ pc' = "download"
    /\ UNCHANGED << halt, stocks, i, frames, df, call_df, put_df >>
    /\ UNCHANGED << caches, rowlevel >>

\* yf.download returns a frame (empty when the symbol has no data, or when
\* yfinance caught a retrieval error of its own and reported it).  The value
\* fetch_data returns is stored, and the loop body runs on it.
DownloadReturns ==
    /\ pc = "download"
    /\ \E download \in {<< >>} \cup RemoteSeries :
         /\ Len(concat(frames)) + Len(download) <= MaxRows
         /\ fetchCache' = [fetchCache EXCEPT
                             ![stocks[i]] = fetch_data(stocks[i], download)]
         /\ frames' = AppendFrame(frames, fetch_data(stocks[i], download))
    /\ i' = i + 1
    /\ pc' = "fetch"
    /\ UNCHANGED << halt, stocks, df, call_df, put_df, stocksCache, rowlevel >>

\* yf.download raises.  Neither fetch_data nor the loop has a handler: the
\* exception ends the run, and nothing is stored for the symbol.
DownloadRaises ==
    /\ pc = "download"
    /\ pc' = "halted" /\ halt' = "exception"
    /\ UNCHANGED << stocks, i, frames, df, call_df, put_df, caches, rowlevel >>

\* The loop is over.  if not frames: st.error(...); st.stop()
CheckFramesNoTest ==
    /\ pc = "fetch" /\ i > Len(stocks)
    /\ pc' = "concat"
    /\ UNCHANGED << halt, stocks, i, frames, df, call_df, put_df >>
    /\ UNCHANGED << caches, rowlevel >>
CheckFrames ==
    /\ pc = "fetch" /\ i > Len(stocks)
    /\ IF frames = << >>
       THEN pc' = "halted" /\ halt' = "nodata"
       ELSE pc' = "concat" /\ halt' = halt
    /\ UNCHANGED << stocks, i, frames, df, call_df, put_df, caches, rowlevel >>

\* df = pd.concat(frames, ignore_index=True)
Concat ==
    /\ pc = "concat"
    /\ df' = concat(frames)
    /\ pc' = "filter"
    /\ UNCHANGED << halt, stocks, i, frames, call_df, put_df >>
    /\ UNCHANGED << caches, rowlevel >>

\* df["Time"] = df["Datetime"].dt.time; df = df[df["Time"] >= 10:00]
TimeFilter ==
    /\ pc = "filter"
    /\ LET timed == [k \in 1..Len(df) |->
                       df[k] @@ [Time |-> TimeOfDay(df[k].Datetime)]]
       IN df' = SelectSeq(timed, KeepBar)
    /\ pc' = "signals"
    /\ UNCHANGED << halt, stocks, i, frames, call_df, put_df >>
    /\ UNCHANGED << caches, rowlevel >>

\* The four flag columns
Signals ==
    /\ pc = "signals"
    /\ df' = [k \in 1..Len(df) |->
                df[k] @@ [CALL_ENTRY |-> CALL_ENTRY(df[k]),
                          PUT_ENTRY |-> PUT_ENTRY(df[k]),
                          CALL_EXIT |-> CALL_EXIT(df[k]),
                          PUT_EXIT |-> PUT_EXIT(df[k])]]
    /\ pc' = "duration"
    /\ UNCHANGED << halt, stocks, i, frames, call_df, put_df >>
    /\ UNCHANGED << caches, rowlevel >>

\* Entry_Time, then Duration_Min by Stock group
EntryDuration ==
    /\ pc = "duration"
    /\ LET stamped == [k \in 1..Len(df) |->
                         df[k] @@ [Entry_Time |-> Entry_Time(df[k])]]
       IN df' = [k \in 1..Len(df) |->
                   stamped[k] @@
                   [Duration_Min |->
                      Duration_Min(stamped[k].Entry_Time,
                                   GroupMin(stamped, stamped[k].Stock))]]
    /\ pc' = "dashboard"
    /\ UNCHANGED << halt, stocks, i, frames, call_df, put_df >>
    /\ UNCHANGED << caches, rowlevel >>

\* The two tabs
Dashboard ==
    /\ pc = "dashboard"
    /\ call_df' = sort_values(SelectSeq(df, CallActive))
    /\ put_df' = sort_values(SelectSeq(df, PutActive))
    /\ pc' = "done"
    /\ UNCHANGED << halt, stocks, i, frames, df >>
    /\ UNCHANGED << caches, rowlevel >>

\* An external trigger reruns the script from its first line: the script
\* variables start afresh, the st.cache_data stores are kept as they are
\* (no ttl, no clear() anywhere in the script).
Trigger ==
    /\ pc \in {"done", "halted"}
    /\ pc' = "load" /\ halt' = ""
    /\ stocks' = << >> /\ i' = 1 /\ frames' = << >>
    /\ df' = << >> /\ call_df' = << >> /\ put_df' = << >>
    /\ UNCHANGED << caches, rowlevel >>

Next ==
    \/ LoadStocksMiss \/ LoadStocksNoColumn \/ LoadStocksHit
    \/ FetchHit \/ FetchMiss \/ DownloadReturns \/ DownloadRaises
    \/ CheckFrames
    \/ Concat \/ TimeFilter \/ Signals \/ EntryDuration \/ Dashboard
    \/ Trigger

Spec == Init /\ [][Next]_vars

\* ----------------------------------------- the rules on a single bar
InitRules ==
    /\ pc = "load" /\ halt = ""
    /\ stocksCache = NotCached
    /\ fetchCache = [s \in Symbols |-> NotCached]
    /\ stocks = << >> /\ i = 1 /\ frames = << >>
    /\ df = << >> /\ call_df = << >> /\ put_df = << >>
    /\ rpc = "input" /\ bar \in IndicatorSpace /\ sig = NoFlags

\* The four flags of one bar, as the Signals step computes them per row
ComposeRow ==
    /\ rpc = "input"
    /\ sig' = [CALL_ENTRY |-> CALL_ENTRY(bar), PUT_ENTRY |-> PUT_ENTRY(bar),
               CALL_EXIT |-> CALL_EXIT(bar), PUT_EXIT |-> PUT_EXIT(bar)]
    /\ rpc' = "composed"
    /\ UNCHANGED << script, caches, bar >>

NextRules == ComposeRow

SpecRules == InitRules /\ [][NextRules]_vars

\* =============================================================== claims
\* Rows of a table, as a set
Rows(tbl) == { tbl[k] : k \in 1..Len(tbl) }
\* Stages of a run that come after the test of `frames`
ComputeStages == {"concat", "filter", "signals", "duration", "dashboard", "done"}
\* The instruments among the first n of the list whose fetch gave a frame
WithData(n) ==
    SelectSeq(SubSeq(stocks, 1, n), LAMBDA s : fetchCache[s].kind = "DataFrame")

\* C1: whatever the indicator values of a bar (missing ones included),
\* CALL_ENTRY and PUT_ENTRY are never both true at that bar.
C1_EntriesNeverBothTrue ==
    rpc = "composed" => ~(sig.CALL_ENTRY /\ sig.PUT_ENTRY)

\* C1 witness: a bar on the bounds of the call rule, flagged CALL_ENTRY only.
C1_Witness ==
    /\ rpc = "composed" /\ sig.CALL_ENTRY /\ ~sig.PUT_ENTRY
    /\ bar.BB60 = 35 /\ bar.RSI20 = 65 /\ bar.WILLR28 = -20

\* C2: at every retained bar with an entry flag, Entry_Time is the bar's
\* timestamp and Duration_Min is the minutes since the earliest entry bar
\* (call or put) of the same instrument; at every other bar both are
\* undefined.
C2_DurationFromFirstEntry ==
    pc \in {"dashboard", "done"} =>
      \A k \in 1..Len(df) :
        LET r == df[k]
            entries == { df[j].Datetime :
                           j \in { n \in 1..Len(df) :
                                     /\ df[n].Stock = r.Stock
                                     /\ df[n].CALL_ENTRY \/ df[n].PUT_ENTRY } }
        IN IF r.CALL_ENTRY \/ r.PUT_ENTRY
           THEN /\ r.Entry_Time = r.Datetime
                /\ \E first \in entries :
                     /\ \A t \in entries : first <= t
                     /\ r.Duration_Min * 60 = r.Datetime - first
           ELSE r.Entry_Time = NaT /\ r.Duration_Min = NaN

\* C2 witness: one instrument with three entry bars, 0, 15 and 1440 minutes
\* after its first entry (1425 after the previous one).
C2_Witness ==
    /\ pc = "done" /\ Len(df) = 3
    /\ df[1].Stock = df[3].Stock /\ df[2].Stock = df[3].Stock
    /\ df[1].Duration_Min = 0 /\ df[2].Duration_Min = 15
    /\ df[3].Duration_Min = 1440

\* C3: after the time filter the table holds exactly the fetched bars whose
\* time of day is 10:00:00 or later, whatever the date and the instrument.
C3_TimeFilterExact ==
    pc \in {"signals", "duration", "dashboard", "done"} =>
      LET fetched == concat(frames)
          late == { k \in 1..Len(fetched) :
                      fetched[k].Datetime % 86400 >= 36000 }
      IN /\ \A k \in 1..Len(fetched) :
              (k \in late) <=>
                 \E j \in 1..Len(df) :
                    /\ df[j].Stock = fetched[k].Stock
                    /\ df[j].Datetime = fetched[k].Datetime
         /\ \A j \in 1..Len(df) :
              \E k \in late :
                 /\ df[j].Stock = fetched[k].Stock
                 /\ df[j].Datetime = fetched[k].Datetime
         /\ Len(df) = Cardinality(late)

\* C3 witness: a download with 09:59:59 and 10:00:00 of the second day; the
\* table holds the second bar only.
C3_Witness ==
    /\ pc = "done"
    /\ \E k \in 1..Len(concat(frames)) : concat(frames)[k].Datetime = 86400 + 35999
    /\ \E j \in 1..Len(df) : df[j].Datetime = 86400 + 36000
    /\ \A j \in 1..Len(df) : df[j].Datetime # 86400 + 35999

\* C4: building the views leaves the composed table as it is; the CALL view
\* holds exactly its rows with CALL_ENTRY and not CALL_EXIT, the PUT view
\* exactly its rows with PUT_ENTRY and not PUT_EXIT.
C4_ActiveViews ==
    [][pc = "dashboard" =>
         /\ df' = df
         /\ Rows(call_df') = { r \in Rows(df) : r.CALL_ENTRY /\ ~r.CALL_EXIT }
         /\ Rows(put_df') = { r \in Rows(df) : r.PUT_ENTRY /\ ~r.PUT_EXIT }
         /\ Len(call_df') = Cardinality(Rows(call_df'))
         /\ Len(put_df') = Cardinality(Rows(put_df'))]_vars

\* C4 witness: a bar with CALL_ENTRY and CALL_EXIT, in the table and not in
\* the CALL view, next to a bar that is in the view.
C4_Witness ==
    /\ pc = "done" /\ call_df # << >>
    /\ \E k \in 1..Len(df) :
         /\ df[k].CALL_ENTRY /\ df[k].CALL_EXIT
         /\ df[k] \notin Rows(call_df)

\* C5: the frames gathered so far are those of the instruments whose fetch
\* was not empty, in list order and row for row; an empty fetch adds nothing,
\* and the run halts for lack of data only if no instrument has any.
C5_EmptyFetchesDropped ==
    LET got == WithData(i - 1)
    IN /\ Len(frames) = Len(got)
       /\ \A k \in 1..Len(frames) :
            /\ Len(frames[k]) = Len(fetchCache[got[k]].rows)
            /\ \A n \in 1..Len(frames[k]) :
                 /\ frames[k][n].Stock = got[k]
                 /\ frames[k][n].Datetime = fetchCache[got[k]].rows[n].Datetime
       /\ (pc = "halted" /\ halt = "nodata") => WithData(Len(stocks)) = << >>

\* C5 witness: two instruments, the first one empty, the run complete with
\* the one frame of the second.
C5_Witness ==
    /\ pc = "done" /\ Len(stocks) = 2
    /\ fetchCache[stocks[1]].kind = "None"
    /\ Len(frames) = 1 /\ frames[1][1].Stock = stocks[2]

\* C6: a retrieval error of one instrument never ends the run.
C6_RetrievalErrorIsNoData ==
    ~(pc = "halted" /\ halt = "exception")

\* C7: when the loop is over and no instrument has data (an empty list
\* included) the run is halted with the no-data error and nothing of the
\* signal computation has run; the computation runs only with data.
C7_NoDataHaltsBeforeSignals ==
    /\ (pc \in ComputeStages \cup {"halted"} /\ halt \notin {"config", "exception"}
        /\ WithData(Len(stocks)) = << >>)
          => /\ pc = "halted" /\ halt = "nodata"
             /\ df = << >> /\ call_df = << >> /\ put_df = << >>
    /\ pc \in ComputeStages => WithData(Len(stocks)) # << >>

\* C7 witness: two instruments, both empty, the run halted for lack of data.
C7_Witness ==
    /\ pc = "halted" /\ halt = "nodata" /\ Len(stocks) = 2

\* C8: every run starts with an empty fetch cache: each fetch_data call of a
\* run is the only one for its identifier and finds nothing stored, so it
\* goes to the remote source.
C8_CacheLivesOneCycle ==
    (pc = "fetch" /\ i <= Len(stocks)) =>
       /\ \A j \in 1..(i - 1) : stocks[j] # stocks[i]
       /\ fetchCache[stocks[i]].kind = "NotCached"

\* C9: a bar with one of the seven entry inputs missing has every comparison
\* on that input false, and both entry flags false.
C9_MissingInputIsFalse ==
    rpc = "composed" =>
      /\ (bar.BB60 = NaN => ~Le(bar.BB60, 35))
      /\ (bar.RSI20 = NaN =>
            ~between(bar.RSI20, 65, 100) /\ ~between(bar.RSI20, 1, 40))
      /\ (bar.WILLR28 = NaN =>
            ~between(bar.WILLR28, -20, 0) /\ ~between(bar.WILLR28, -100, -80))
      /\ (bar.pDI6 = NaN => ~Ge(bar.pDI6, 40) /\ ~Le(bar.pDI6, 15))
      /\ (bar.nDI6 = NaN => ~Le(bar.nDI6, 12) /\ ~Ge(bar.nDI6, 35))
      /\ (bar.pDI20 = NaN => ~Ge(bar.pDI20, 35) /\ ~Le(bar.pDI20, 15))
      /\ (bar.nDI20 = NaN => ~Le(bar.nDI20, 15) /\ ~Ge(bar.nDI20, 30))
      /\ (NaN \in {bar.BB60, bar.RSI20, bar.WILLR28, bar.pDI6, bar.nDI6,
                   bar.pDI20, bar.nDI20}
            => ~sig.CALL_ENTRY /\ ~sig.PUT_ENTRY)

\* C9 witness: a bar on the bounds of the call rule but for a missing BB60.
C9_Witness ==
    /\ rpc = "composed" /\ bar.BB60 = NaN
    /\ bar.RSI20 = 65 /\ bar.WILLR28 = -20 /\ bar.pDI6 = 40 /\ bar.nDI6 = 12
    /\ bar.pDI20 = 35 /\ bar.nDI20 = 15
    /\ ~sig.CALL_ENTRY

\* C10: at a CALL_ENTRY bar +DI20 exceeds -DI20 by at least 20, the collapse
\* clause is false and the bar is active iff not Close < MA8; at a PUT_ENTRY
\* bar -DI20 exceeds +DI20 by at least 15, the clause is false and the bar is
\* active iff not Close > MA8.
C10_EntryExcludesCollapse ==
    rpc = "composed" =>
      /\ sig.CALL_ENTRY =>
           /\ bar.pDI20 - bar.nDI20 >= 20
           /\ ~TrendCollapse(bar)
           /\ CallActive(sig) <=>
                ~(bar.Close # NaN /\ bar.MA8 # NaN /\ bar.Close < bar.MA8)
      /\ sig.PUT_ENTRY =>
           /\ bar.nDI20 - bar.pDI20 >= 15
           /\ ~TrendCollapse(bar)
           /\ PutActive(sig) <=>
                ~(bar.Close # NaN /\ bar.MA8 # NaN /\ bar.Close > bar.MA8)

\* C10 witness: a PUT_ENTRY bar with a gap of exactly 15, closed above its
\* average and so not active.
C10_Witness ==
    /\ rpc = "composed" /\ sig.PUT_ENTRY
    /\ bar.nDI20 - bar.pDI20 = 15
    /\ bar.Close = 100 /\ bar.MA8 = 99
    /\ ~PutActive(sig)

====
